---- MODULE Spec2Model ----
(***************************************************************************)
(* Model of app.py (lyekai/word_game_v3): the Gemini text client with its  *)
(* retry loop, the word classification of the feedback handler, the CSV    *)
(* interaction logger and the two POST handlers.                           *)
(***************************************************************************)
EXTENDS Integers, Sequences, FiniteSets, TLC

VARIABLES
    \* ---- call_gemini_api, one call, one attempt per step ----
    apiKey,      \* API_KEY is configured
    pcApi,       \* "entry" | "loop" | "done"
    attempt,     \* loop variable of `for attempt in range(max_retries)`
    requests,    \* number of requests.post calls issued
    waits,       \* arguments of the time.sleep calls, in order
    ret,         \* returned value (NoReturn until the call returns)
    raised,      \* an exception left call_gemini_api
    hist,        \* the upstream outcome of each attempt, in order
    \* ---- the classification of get_ai_feedback ----
    pcCls,             \* "input" | "done"
    selected_cards,    \* data.get('correct_words', [])
    answer,            \* current_level_data["answer"]
    correct_selected,
    wrong_selected,
    missing_words,
    \* ---- record.csv and save_to_csv ----
    store,        \* record.csv: [exists, rows]
    written,      \* the rows handed to the calls that completed, in call order
    calls,        \* number of save_to_csv calls started
    failedCalls,  \* number of save_to_csv calls whose write raised
    pcW,          \* concurrent writers: position of each caller in save_to_csv
    file_exists,  \* concurrent writers: each caller's local file_exists
    buf,          \* concurrent writers: each caller's unflushed file buffer
    arg,          \* concurrent writers: each caller's data_dict
    \* ---- the POST handlers ----
    nReq,         \* number of requests handled
    lastReq,      \* the request handled last and what its environment did
    prompt,       \* the word lists the last feedback request put in its prompt
    response      \* the HTTP response to the last request

apiVars == <<apiKey, pcApi, attempt, requests, waits, ret, raised, hist>>
clsVars == <<pcCls, selected_cards, answer, correct_selected, wrong_selected,
             missing_words>>

csvVars == <<store, written, calls, failedCalls>>
conVars == <<pcW, file_exists, buf, arg>>

hdlVars == <<nReq, lastReq, prompt, response>>

vars == <<apiVars, clsVars, csvVars, conVars, hdlVars>>

----------------------------------------------------------------------------
(* Bounds *)
MaxTextLen == 2
MaxSelected == 3
MaxAnswer == 2
MaxCalls == 4
NumWriters == 2
MaxReqs == 2

----------------------------------------------------------------------------
(* Returned strings of call_gemini_api.  msg names the fixed string, text  *)
(* is the generated text when msg = "text".                                *)
NoReturn     == [msg |-> "none",    text |-> <<>>]
MSG_NO_KEY   == [msg |-> "no_key",  text |-> <<>>]
MSG_EMPTY    == [msg |-> "empty",   text |-> <<>>]
MSG_CONN     == [msg |-> "conn",    text |-> <<>>]
MSG_GENERIC  == [msg |-> "generic", text |-> <<>>]
TextReturn(s) == [msg |-> "text", text |-> s]

FailureStrings == {MSG_NO_KEY, MSG_EMPTY, MSG_CONN, MSG_GENERIC}

max_retries == 3

\* wait_time = (attempt + 1) * 2
RateLimitWait(a) == (a + 1) * 2

\* time.sleep(1) in the except branch
ExceptionWait == 1

IsFinalAttempt_bug(a) == a = max_retries
\* if attempt == max_retries - 1
IsFinalAttempt(a) == a = max_retries - 1

\* str.strip(): drop leading and trailing whitespace
RECURSIVE LStrip(_)
LStrip(s) == IF s = <<>> THEN s
             ELSE IF Head(s) = " " THEN LStrip(Tail(s)) ELSE s

RECURSIVE RStrip(_)
RStrip(s) == IF s = <<>> THEN s
             ELSE IF s[Len(s)] = " " THEN RStrip(SubSeq(s, 1, Len(s) - 1)) ELSE s

Strip(s) == RStrip(LStrip(s))

----------------------------------------------------------------------------
(* Upstream outcomes of one requests.post *)
Chars == {" ", "a"}
Texts == UNION {[1..n -> Chars] : n \in 0..MaxTextLen}

\* the value found under 'text': absent key, JSON null, a string, a non-zero
\* number (truthy, and without a strip method)
TextVals == {[t |-> "absent", s |-> <<>>], [t |-> "null", s |-> <<>>],
             [t |-> "num", s |-> <<>>]}
            \cup {[t |-> "str", s |-> x] : x \in Texts}

NoText == [t |-> "absent", s |-> <<>>]

Body(j, c, ct, p, tv) ==
    [json |-> j, candidates |-> c, content |-> ct, parts |-> p, text |-> tv]

Bodies ==
    {Body("bad", "absent", "absent", "absent", NoText),
     Body("list", "absent", "absent", "absent", NoText),
     Body("dict", "absent", "absent", "absent", NoText),
     Body("dict", "empty", "absent", "absent", NoText),
     Body("dict", "one", "absent", "absent", NoText),
     Body("dict", "one", "present", "absent", NoText),
     Body("dict", "one", "present", "empty", NoText)}
    \cup {Body("dict", "one", "present", "one", tv) : tv \in TextVals}

AnyBody == Body("bad", "absent", "absent", "absent", NoText)

Responses ==
    {[kind |-> "exception", status |-> 0, body |-> AnyBody],
     [kind |-> "http", status |-> 429, body |-> AnyBody],
     [kind |-> "http", status |-> 500, body |-> AnyBody]}
    \cup {[kind |-> "http", status |-> 200, body |-> b] : b \in Bodies}

\* response.raise_for_status(): HTTPError for 4xx and 5xx
RaisesForStatus(status) == status >= 400 /\ status < 600

ParseText_bug(b) ==
    IF b.json = "bad" THEN [exc |-> "ValueError", text |-> NoText]
    ELSE IF b.json = "list" THEN [exc |-> "AttributeError", text |-> NoText]
    ELSE IF b.candidates = "absent" THEN [exc |-> "KeyError", text |-> NoText]
    ELSE IF b.candidates = "empty" THEN [exc |-> "IndexError", text |-> NoText]
    ELSE IF b.content = "absent" THEN [exc |-> "KeyError", text |-> NoText]
    ELSE IF b.parts = "absent" THEN [exc |-> "KeyError", text |-> NoText]
    ELSE IF b.parts = "empty" THEN [exc |-> "IndexError", text |-> NoText]
    ELSE IF b.text.t = "absent" THEN [exc |-> "KeyError", text |-> NoText]
    ELSE [exc |-> "none", text |-> b.text]

\* result = response.json()
\* candidate = result.get('candidates', [{}])[0]
\* generated_text = candidate.get('content', {}).get('parts', [{}])[0].get('text')
ParseText(b) ==
    IF b.json = "bad" THEN [exc |-> "ValueError", text |-> NoText]
    ELSE IF b.json = "list" THEN [exc |-> "AttributeError", text |-> NoText]
    ELSE IF b.candidates = "absent" THEN [exc |-> "none", text |-> NoText]
    ELSE IF b.candidates = "empty" THEN [exc |-> "IndexError", text |-> NoText]
    ELSE IF b.content = "absent" THEN [exc |-> "none", text |-> NoText]
    ELSE IF b.parts = "absent" THEN [exc |-> "none", text |-> NoText]
    ELSE IF b.parts = "empty" THEN [exc |-> "IndexError", text |-> NoText]
    ELSE [exc |-> "none", text |-> b.text]

\* truth value of generated_text
Truthy(tv) == (tv.t = "str" /\ tv.s # <<>>) \/ tv.t = "num"

Caught_bug(exc) == exc \in {"RequestException", "HTTPError"}
\* except Exception as e: every exception the try block can raise is caught
Caught(exc) == exc \in {"RequestException", "HTTPError", "ValueError",
                        "AttributeError", "IndexError", "KeyError"}

\* the except branch of attempt a
OnException(a, exc) ==
    IF ~Caught(exc)
    THEN [next |-> "raise", wait |-> <<>>, ret |-> NoReturn]
    ELSE IF IsFinalAttempt(a)
    THEN [next |-> "return", wait |-> <<>>, ret |-> MSG_CONN]
    ELSE [next |-> "continue", wait |-> <<ExceptionWait>>, ret |-> NoReturn]

\* the body of the for loop for attempt a when requests.post yields resp
AttemptResult(a, resp) ==
    IF resp.kind = "exception" THEN OnException(a, "RequestException")
    ELSE IF resp.status = 429
    THEN [next |-> "continue", wait |-> <<RateLimitWait(a)>>, ret |-> NoReturn]
    ELSE IF RaisesForStatus(resp.status) THEN OnException(a, "HTTPError")
    ELSE LET p == ParseText(resp.body) IN
         IF p.exc # "none" THEN OnException(a, p.exc)
         ELSE IF ~Truthy(p.text)
         THEN [next |-> "return", wait |-> <<>>, ret |-> MSG_EMPTY]
         ELSE IF p.text.t = "num" THEN OnException(a, "AttributeError")
         ELSE [next |-> "return", wait |-> <<>>, ret |-> TextReturn(Strip(p.text.s))]

----------------------------------------------------------------------------
(* Word classification of get_ai_feedback *)
Words == {"Apple", "apple", "Dog", "tree", "Tree"}

\* str.lower()
Lower(w) == CASE w = "Apple" -> "apple"
              [] w = "Dog" -> "dog"
              [] w = "Tree" -> "tree"
              [] OTHER -> w

\* x in list
InList(x, s) == \E i \in 1..Len(s) : s[i] = x

\* [f(w) for w in s]
LowerAll(s) == [i \in 1..Len(s) |-> Lower(s[i])]

\* standard_answers = [a.lower() for a in current_level_data["answer"]]
StandardAnswers(ans) == LowerAll(ans)

CorrectSelected_bug(sel, std) == SelectSeq(sel, LAMBDA w : InList(w, std))
\* correct_selected = [w for w in selected_cards if w.lower() in standard_answers]
CorrectSelected(sel, std) == SelectSeq(sel, LAMBDA w : InList(Lower(w), std))

\* wrong_selected = [w for w in selected_cards if w.lower() not in standard_answers]
WrongSelected(sel, std) == SelectSeq(sel, LAMBDA w : ~InList(Lower(w), std))

\* missing_words = [w for w in standard_answers
\*                  if w.lower() not in [x.lower() for x in selected_cards]]
MissingWords(sel, std) == SelectSeq(std, LAMBDA w : ~InList(Lower(w), LowerAll(sel)))

SeqsUpTo(S, n) == UNION {[1..k -> S] : k \in 0..n}

ClsQuiet ==
    /\ pcCls = "input"
    /\ selected_cards = <<>>
    /\ answer = <<>>
    /\ correct_selected = <<>>
    /\ wrong_selected = <<>>
    /\ missing_words = <<>>

----------------------------------------------------------------------------
(* record.csv and save_to_csv *)
\* a line of record.csv; the header line has kind "header"
Line(kind, round, level, words, sentence, feedback, ws, ss, total) ==
    [kind |-> kind, feedback_round |-> round, level |-> level,
     selected_words |-> words, user_sentence |-> sentence,
     ai_feedback |-> feedback, word_stars |-> ws, sentence_stars |-> ss,
     total_stars |-> total]

\* writer.writeheader(): the fieldnames line
HEADER == Line("header", 0, 0, <<>>, "", NoReturn, 0, 0, 0)

AbsentStore == [exists |-> FALSE, rows |-> <<>>]

\* file_exists = os.path.isfile(file_path)
CsvCheck(st) == st.exists

OpenContent_bug(st) == <<>>
\* open(file_path, mode='a', ...): the content of an existing file is kept
OpenContent(st) == st.rows

\* the open call creates the file when it is absent
CsvOpen(st) == [exists |-> TRUE, rows |-> OpenContent(st)]

HeaderNeeded_bug(fe) == TRUE
\* if not file_exists: writer.writeheader()
HeaderNeeded(fe) == ~fe

CsvHeader(fe) == IF HeaderNeeded(fe) THEN <<HEADER>> ELSE <<>>

\* leaving the with block flushes the buffered lines to the end of the file
CsvFlush(st, lines) == [st EXCEPT !.rows = @ \o lines]

\* what can go wrong inside the try block: open raises, writer.writerow
\* raises (the header, if any, is already buffered), the flush at close raises
Faults == {"none", "open", "row", "flush"}

CsvCaught_bug(fault) == fault \notin {"row", "flush"}
\* except Exception as e: print(...)
CsvCaught(fault) == TRUE

\* save_to_csv(data_dict) run without interruption
save_to_csv(st, data_dict, fault) ==
    LET fe == CsvCheck(st) IN
    IF fault = "open"
    THEN [store |-> st, raised |-> ~CsvCaught(fault)]
    ELSE IF fault = "row"
    THEN [store |-> CsvFlush(CsvOpen(st), CsvHeader(fe)), raised |-> ~CsvCaught(fault)]
    ELSE IF fault = "flush"
    THEN [store |-> CsvOpen(st), raised |-> ~CsvCaught(fault)]
    ELSE [store |-> CsvFlush(CsvOpen(st), CsvHeader(fe) \o <<data_dict>>),
          raised |-> FALSE]

Writers == 1..NumWriters

\* the data_dict values used for the logger on its own
SampleRows ==
    {Line("data", r, 1, <<"Apple">>, "s", MSG_GENERIC, 1, 1, 2) : r \in 1..3}

CsvQuiet ==
    /\ store = AbsentStore
    /\ written = <<>>
    /\ calls = 0
    /\ failedCalls = 0

ConQuiet ==
    /\ pcW = [p \in Writers |-> "idle"]
    /\ file_exists = [p \in Writers |-> FALSE]
    /\ buf = [p \in Writers |-> <<>>]
    /\ arg = [p \in Writers |-> HEADER]

----------------------------------------------------------------------------
(* call_gemini_api run to completion on the outcomes resps[1..3] *)
RECURSIVE ApiLoop(_, _)
ApiLoop(a, resps) ==
    IF a >= max_retries THEN [raised |-> FALSE, ret |-> MSG_GENERIC]
    ELSE LET r == AttemptResult(a, resps[a + 1]) IN
         IF r.next = "continue" THEN ApiLoop(a + 1, resps)
         ELSE IF r.next = "raise" THEN [raised |-> TRUE, ret |-> NoReturn]
         ELSE [raised |-> FALSE, ret |-> r.ret]

call_gemini_api(key, resps) ==
    IF ~key THEN [raised |-> FALSE, ret |-> MSG_NO_KEY] ELSE ApiLoop(0, resps)

\* ai_critique.replace("1. ", "\n1. "): a line break (token "NL") before
\* every numbered marker (token "1. ")
RECURSIVE ReplaceMarker(_)
ReplaceMarker(t) ==
    IF t = <<>> THEN <<>>
    ELSE IF Head(t) = "1. " THEN <<"NL", "1. ">> \o ReplaceMarker(Tail(t))
    ELSE <<Head(t)>> \o ReplaceMarker(Tail(t))

\* feedback.replace('\n', ' ')
Flatten(t) == [i \in 1..Len(t) |-> IF t[i] = "NL" THEN " " ELSE t[i]]

\* get_sentence_analysis: the prompt is sent, the answer gets the line break
get_sentence_analysis(key, resps) ==
    LET api == call_gemini_api(key, resps) IN
    [raised |-> api.raised, ret |-> [api.ret EXCEPT !.text = ReplaceMarker(@)]]

\* call_gemini_image_api(user_sentence) when the image service does `outcome`
ImageOutcomes == {"ok", "empty_body", "http_error", "exception"}
IMAGE_NONE == "None"
IMAGE_B64 == "b64"
call_gemini_image_api(user_sentence, outcome) ==
    IF user_sentence = "" THEN IMAGE_NONE
    ELSE IF outcome = "ok" THEN IMAGE_B64
    ELSE IMAGE_NONE

\* static/data/easy_mode.json
Levels == {[level |-> 1, answer |-> <<"apple", "tree">>],
           [level |-> 2, answer |-> <<"Dog">>]}

\* next((item for item in full_data if item["level"] == int(level_idx)), None)
LookupLevel(level_idx) ==
    IF \E l \in Levels : l.level = level_idx
    THEN [found |-> TRUE, answer |-> (CHOOSE l \in Levels : l.level = level_idx).answer]
    ELSE [found |-> FALSE, answer |-> <<>>]

AnswersOf_bug(lv) == [exc |-> ~lv.found, std |-> StandardAnswers(lv.answer)]
\* [a.lower() for a in current_level_data["answer"]] if current_level_data else []
AnswersOf(lv) ==
    [exc |-> FALSE, std |-> IF lv.found THEN StandardAnswers(lv.answer) ELSE <<>>]

\* JSON bodies of the POST requests.  kind: "ok", "bad_json" (get_json
\* raises or yields None), "bad_stars" (int() of a star count raises),
\* "bad_level" (int(level_idx) raises)
Request(kind, level, sentence) ==
    [kind |-> kind, level |-> level, user_sentence |-> sentence,
     correct_words |-> <<"Apple", "Dog">>, feedback_count |-> 0,
     word_stars |-> 1, sentence_stars |-> 2]

FeedbackRequests == {Request("ok", 1, "s"), Request("ok", 9, "s"),
                     Request("bad_json", 1, "s"), Request("bad_level", 1, "s")}
ImageRequests == {Request("ok", 1, "s"), Request("ok", 1, ""),
                  Request("bad_json", 1, "s"), Request("bad_stars", 1, "s")}

R429 == [kind |-> "http", status |-> 429, body |-> AnyBody]
RExc == [kind |-> "exception", status |-> 0, body |-> AnyBody]
RText(t) == [kind |-> "http", status |-> 200,
             body |-> Body("dict", "one", "present", "one", [t |-> "str", s |-> t])]

\* what the text service does during one feedback request
Scenarios ==
    {[name |-> "no_key", key |-> FALSE, resps |-> <<R429, R429, R429>>],
     [name |-> "rate_limited", key |-> TRUE, resps |-> <<R429, R429, R429>>],
     [name |-> "net_down", key |-> TRUE, resps |-> <<RExc, RExc, RExc>>],
     [name |-> "text", key |-> TRUE, resps |-> <<R429, RText(<<" ", "1. ", "a">>), RExc>>],
     [name |-> "empty", key |-> TRUE, resps |-> <<RText(<<>>), RExc, RExc>>]}

Reply(status, field, value) == [status |-> status, field |-> field, value |-> value]
SERVER_ERROR == Reply(500, "feedback", [msg |-> "server_error", text |-> <<>>])
IMAGE_FAILED == Reply(500, "error", [msg |-> "image_failed", text |-> <<>>])
EXCEPTION_TEXT == Reply(500, "error", [msg |-> "str(e)", text |-> <<>>])
NoReply == Reply(0, "none", NoReturn)
NoPrompt == [sent |-> FALSE, answers |-> <<>>, correct |-> <<>>, wrong |-> <<>>,
             missing |-> <<>>]
NoRequest == [endpoint |-> "none", req |-> Request("none", 0, ""),
              levelFileOk |-> TRUE, scenario |-> "n/a", image |-> "n/a",
              fault |-> "none"]

\* the body of get_ai_feedback.  The sentences of Request carry no
\* surrounding whitespace, so .strip() leaves them as they are; the line keeps
\* selected_cards as the list that ",".join writes out.
AiFeedbackHandler(st, req, levelFileOk, sc, fault) ==
    IF req.kind \in {"bad_json", "bad_stars"} \/ ~levelFileOk \/ req.kind = "bad_level"
    THEN [store |-> st, prompt |-> NoPrompt, response |-> SERVER_ERROR]
    ELSE
    LET ans == AnswersOf(LookupLevel(req.level)) IN
    IF ans.exc
    THEN [store |-> st, prompt |-> NoPrompt, response |-> SERVER_ERROR]
    ELSE
    LET std == ans.std
        pr == [sent |-> TRUE, answers |-> std,
               correct |-> CorrectSelected(req.correct_words, std),
               wrong |-> WrongSelected(req.correct_words, std),
               missing |-> MissingWords(req.correct_words, std)]
        fb == get_sentence_analysis(sc.key, sc.resps)
    IN
    IF fb.raised
    THEN [store |-> st, prompt |-> pr, response |-> SERVER_ERROR]
    ELSE
    LET log_data == Line("data", req.feedback_count + 1, req.level,
                         req.correct_words, req.user_sentence,
                         [fb.ret EXCEPT !.text = Flatten(@)],
                         req.word_stars, req.sentence_stars,
                         req.word_stars + req.sentence_stars)
        sv == save_to_csv(st, log_data, fault)
    IN
    IF sv.raised
    THEN [store |-> sv.store, prompt |-> pr, response |-> SERVER_ERROR]
    ELSE [store |-> sv.store, prompt |-> pr,
          response |-> Reply(200, "feedback", fb.ret)]

\* the body of generate_image
GenerateImageHandler(st, req, outcome, fault) ==
    IF req.kind \in {"bad_json", "bad_stars"}
    THEN [store |-> st, response |-> EXCEPTION_TEXT]
    ELSE
    LET image_b64 == call_gemini_image_api(req.user_sentence, outcome) IN
    IF image_b64 = IMAGE_NONE
    THEN [store |-> st, response |-> IMAGE_FAILED]
    ELSE
    LET log_data == Line("data", 0, req.level, req.correct_words,
                         req.user_sentence, [msg |-> "N/A", text |-> <<>>],
                         req.word_stars, req.sentence_stars,
                         req.word_stars + req.sentence_stars)
        sv == save_to_csv(st, log_data, fault)
    IN
    IF sv.raised
    THEN [store |-> sv.store, response |-> EXCEPTION_TEXT]
    ELSE [store |-> sv.store,
          response |-> Reply(200, "image_data", [msg |-> image_b64, text |-> <<>>])]

HdlQuiet ==
    /\ nReq = 0
    /\ lastReq = NoRequest
    /\ prompt = NoPrompt
    /\ response = NoReply

----------------------------------------------------------------------------
(* call_gemini_api as a state machine *)
ApiQuiet ==
    /\ apiKey = TRUE
    /\ pcApi = "entry"
    /\ attempt = 0
    /\ requests = 0
    /\ waits = <<>>
    /\ ret = NoReturn
    /\ raised = FALSE
    /\ hist = <<>>

InitApi ==
    /\ ClsQuiet /\ CsvQuiet /\ ConQuiet /\ HdlQuiet
    /\ apiKey \in BOOLEAN
    /\ pcApi = "entry"
    /\ attempt = 0
    /\ requests = 0
    /\ waits = <<>>
    /\ ret = NoReturn
    /\ raised = FALSE
    /\ hist = <<>>

\* if not API_KEY: return ...
ApiNoKey ==
    /\ pcApi = "entry" /\ ~apiKey
    /\ pcApi' = "done"
    /\ ret' = MSG_NO_KEY
    /\ UNCHANGED <<apiKey, attempt, requests, waits, raised, hist>>
    /\ UNCHANGED <<clsVars, csvVars, conVars, hdlVars>>

ApiEnter ==
    /\ pcApi = "entry" /\ apiKey
    /\ pcApi' = "loop"
    /\ UNCHANGED <<apiKey, attempt, requests, waits, ret, raised, hist>>
    /\ UNCHANGED <<clsVars, csvVars, conVars, hdlVars>>

\* one iteration of the for loop
ApiAttempt ==
    /\ pcApi = "loop" /\ attempt < max_retries
    /\ \E resp \in Responses :
         LET r == AttemptResult(attempt, resp) IN
         /\ requests' = requests + 1
         /\ hist' = Append(hist, resp)
         /\ waits' = waits \o r.wait
         /\ ret' = r.ret
         /\ raised' = (r.next = "raise")
         /\ pcApi' = IF r.next = "continue" THEN "loop" ELSE "done"
         /\ attempt' = IF r.next = "continue" THEN attempt + 1 ELSE attempt
    /\ UNCHANGED apiKey
    /\ UNCHANGED <<clsVars, csvVars, conVars, hdlVars>>

\* the loop ran out: return "回饋失敗。"
ApiExhausted ==
    /\ pcApi = "loop" /\ attempt >= max_retries
    /\ pcApi' = "done"
    /\ ret' = MSG_GENERIC
    /\ UNCHANGED <<apiKey, attempt, requests, waits, raised, hist>>
    /\ UNCHANGED <<clsVars, csvVars, conVars, hdlVars>>

NextApi == ApiNoKey \/ ApiEnter \/ ApiAttempt \/ ApiExhausted

SpecApi == InitApi /\ [][NextApi]_vars

FairSpecApi == SpecApi /\ WF_vars(NextApi)

----------------------------------------------------------------------------
(* Properties of call_gemini_api *)
Is429(r) == r.kind = "http" /\ r.status = 429
IsNetException(r) == r.kind = "exception"
Is2xx(r) == r.kind = "http" /\ r.status = 200

AllRateLimited == Len(hist) = max_retries /\ \A i \in 1..Len(hist) : Is429(hist[i])
AllExceptions == Len(hist) >= 1 /\ \A i \in 1..Len(hist) : IsNetException(hist[i])

\* C1 (as stated): three rate-limit responses in a row make the client
\* sleep exactly 2 and then 4 time-units and return the generic failure
\* string without raising.
C1_WaitsTwoThenFour ==
    (pcApi = "done" /\ AllRateLimited) =>
        /\ waits = <<2, 4>>
        /\ ret = MSG_GENERIC
        /\ ~raised

\* C2: when every attempt raises a network exception the client sleeps 1
\* time-unit after attempts 1 and 2 only, issues exactly 3 requests and
\* returns the "connection problem" string on the third attempt.
C2_ExceptionRetry ==
    AllExceptions =>
        /\ requests = Len(hist)
        /\ requests <= 3
        /\ waits = [i \in 1..(IF Len(hist) < 3 THEN Len(hist) ELSE 2) |-> 1]
        /\ IF Len(hist) = 3
           THEN pcApi = "done" /\ ret = MSG_CONN /\ ~raised
           ELSE pcApi = "loop" /\ ret = NoReturn

C2_Witness ==
    /\ AllExceptions /\ Len(hist) = 3 /\ pcApi = "done"
    /\ waits = <<1, 1>> /\ ret = MSG_CONN

\* C3: whatever the outcome of each attempt, call_gemini_api issues at most
\* 3 requests, never lets an exception reach its caller, and terminates
\* with a returned string.
C3_BoundedNoRaise ==
    /\ [](/\ requests <= 3
          /\ ~raised
          /\ (pcApi = "done" => ret # NoReturn)
          /\ (pcApi # "done" => ret = NoReturn))
    /\ <>(pcApi = "done")

C3_Witness ==
    /\ pcApi = "done" /\ requests = 3 /\ ~raised /\ ret = MSG_CONN
    /\ Is429(hist[1])
    /\ Is2xx(hist[2]) /\ hist[2].body.candidates = "empty"
    /\ Is2xx(hist[3]) /\ hist[3].body.json = "bad"

\* a 2xx body with a missing or empty text part
MissingOrEmptyText(b) ==
    /\ b.json = "dict"
    /\ \/ b.candidates = "absent"
       \/ /\ b.candidates = "one"
          /\ \/ b.content = "absent"
             \/ b.parts = "absent"
             \/ /\ b.parts = "one"
                /\ \/ b.text.t \in {"absent", "null"}
                   \/ b.text.t = "str" /\ b.text.s = <<>>

\* a 2xx body that cannot be parsed or has an empty candidates list
Unparseable(b) == b.json = "bad" \/ (b.json = "dict" /\ b.candidates = "empty")

\* a 2xx body whose extraction raises inside the try block
RaisingBody(b) ==
    \/ b.json \in {"bad", "list"}
    \/ b.json = "dict" /\ b.candidates = "empty"
    \/ b.json = "dict" /\ b.candidates = "one" /\ b.content = "present" /\ b.parts = "empty"
    \/ /\ b.json = "dict" /\ b.candidates = "one" /\ b.content = "present"
       /\ b.parts = "one" /\ b.text.t = "num"

----------------------------------------------------------------------------
(* The classification applied to bounded inputs *)
InitClassify ==
    /\ ApiQuiet /\ CsvQuiet /\ ConQuiet /\ HdlQuiet
    /\ pcCls = "input"
    /\ selected_cards \in SeqsUpTo(Words, MaxSelected)
    /\ answer \in SeqsUpTo(Words, MaxAnswer)
    /\ correct_selected = <<>>
    /\ wrong_selected = <<>>
    /\ missing_words = <<>>

Classify ==
    /\ pcCls = "input"
    /\ LET std == StandardAnswers(answer) IN
       /\ correct_selected' = CorrectSelected(selected_cards, std)
       /\ wrong_selected' = WrongSelected(selected_cards, std)
       /\ missing_words' = MissingWords(selected_cards, std)
    /\ pcCls' = "done"
    /\ UNCHANGED <<selected_cards, answer>>
    /\ UNCHANGED <<apiVars, csvVars, conVars, hdlVars>>

NextClassify == Classify

SpecClassify == InitClassify /\ [][NextClassify]_vars

\* case folding used to state the classification properties
Fold(w) == CASE w \in {"Apple", "apple"} -> "apple"
             [] w \in {"Dog", "dog"} -> "dog"
             [] w \in {"Tree", "tree"} -> "tree"
             [] OTHER -> w
FoldSet(s) == {Fold(s[i]) : i \in 1..Len(s)}
Occurrences(w, s) == Cardinality({i \in 1..Len(s) : Fold(s[i]) = w})
NoFoldedDuplicates(s) == \A i, j \in 1..Len(s) : Fold(s[i]) = Fold(s[j]) => i = j

PartitionSets ==
    /\ FoldSet(correct_selected) = FoldSet(selected_cards) \cap FoldSet(answer)
    /\ FoldSet(wrong_selected) = FoldSet(selected_cards) \ FoldSet(answer)
    /\ FoldSet(missing_words) = FoldSet(answer) \ FoldSet(selected_cards)
    /\ FoldSet(correct_selected) \cap FoldSet(wrong_selected) = {}
    /\ FoldSet(correct_selected) \cap FoldSet(missing_words) = {}
    /\ FoldSet(wrong_selected) \cap FoldSet(missing_words) = {}

\* C5 (as stated): correct = S n A, wrong = S \ A, missing = A \ S
\* case-insensitively, pairwise disjoint, and every case-folded word of
\* S u A occurs exactly once over the three lists, duplicates and case
\* variants in S included.
C5_ExactlyOnce ==
    pcCls = "done" =>
        /\ PartitionSets
        /\ \A w \in FoldSet(selected_cards) \cup FoldSet(answer) :
              Occurrences(w, correct_selected \o wrong_selected \o missing_words) = 1

\* C5 (amended): the same set equalities and disjointness hold; a selected
\* word is kept as often as it was selected and a missing word as often as
\* the answer list names it, so a case-folded word occurs exactly once only
\* when neither S nor A holds case-insensitive duplicates.
C5_Amended ==
    pcCls = "done" =>
        /\ PartitionSets
        /\ \A w \in FoldSet(selected_cards) \cup FoldSet(answer) :
              /\ Occurrences(w, correct_selected \o wrong_selected)
                    = Occurrences(w, selected_cards)
              /\ Occurrences(w, missing_words)
                    = IF w \in FoldSet(selected_cards) THEN 0
                      ELSE Occurrences(w, answer)
              /\ (NoFoldedDuplicates(selected_cards) /\ NoFoldedDuplicates(answer))
                    => Occurrences(w, correct_selected \o wrong_selected \o missing_words) = 1

C5_Witness ==
    /\ pcCls = "done"
    /\ selected_cards = <<"Apple", "Dog">> /\ answer = <<"apple", "tree">>
    /\ correct_selected = <<"Apple">>
    /\ wrong_selected = <<"Dog">>
    /\ missing_words = <<"tree">>

----------------------------------------------------------------------------
(* save_to_csv called sequentially on an absent record.csv *)
InitSeq ==
    /\ ApiQuiet /\ ClsQuiet /\ ConQuiet /\ HdlQuiet
    /\ CsvQuiet

SaveOk ==
    /\ calls < MaxCalls
    /\ \E d \in SampleRows :
         /\ store' = save_to_csv(store, d, "none").store
         /\ written' = Append(written, d)
    /\ calls' = calls + 1
    /\ UNCHANGED <<failedCalls, apiVars, clsVars, conVars, hdlVars>>

SaveFails ==
    /\ calls < MaxCalls
    /\ \E d \in SampleRows, fault \in Faults \ {"none"} :
         store' = save_to_csv(store, d, fault).store
    /\ calls' = calls + 1
    /\ failedCalls' = failedCalls + 1
    /\ UNCHANGED <<written, apiVars, clsVars, conVars, hdlVars>>

NextSeq == SaveOk \/ SaveFails

SpecSeq == InitSeq /\ [][NextSeq]_vars

IsPrefix(s, t) == Len(s) <= Len(t) /\ \A i \in 1..Len(s) : s[i] = t[i]
HeaderCount(rows) == Cardinality({i \in 1..Len(rows) : rows[i] = HEADER})

\* C6: n >= 1 successful sequential save_to_csv calls on an absent store
\* leave exactly one header line, first, followed by the n data rows in call
\* order, and no call rewrites, reorders or removes a line written earlier.
C6_HeaderThenRows ==
    /\ []((calls >= 1 /\ failedCalls = 0) =>
            /\ store.exists
            /\ store.rows = <<HEADER>> \o written
            /\ Len(written) = calls
            /\ HeaderCount(store.rows) = 1)
    /\ [][IsPrefix(store.rows, store'.rows)]_vars

C6_Witness ==
    /\ calls >= 3 /\ failedCalls = 0
    /\ Len(store.rows) = calls + 1 /\ store.rows[1] = HEADER
    /\ store.rows[2] # store.rows[3]

----------------------------------------------------------------------------
(* save_to_csv called by parallel requests, one line of code per step *)
InitCon ==
    /\ ApiQuiet /\ ClsQuiet /\ HdlQuiet
    /\ CsvQuiet /\ ConQuiet

\* file_exists = os.path.isfile(file_path)
W_Check(p) ==
    /\ pcW[p] = "idle"
    /\ \E d \in SampleRows : arg' = [arg EXCEPT ![p] = d]
    /\ file_exists' = [file_exists EXCEPT ![p] = CsvCheck(store)]
    /\ pcW' = [pcW EXCEPT ![p] = "checked"]
    /\ calls' = calls + 1
    /\ UNCHANGED <<store, written, failedCalls, buf, apiVars, clsVars, hdlVars>>

\* with open(file_path, mode='a', ...) as f
W_Open(p) ==
    /\ pcW[p] = "checked"
    /\ store' = CsvOpen(store)
    /\ buf' = [buf EXCEPT ![p] = <<>>]
    /\ pcW' = [pcW EXCEPT ![p] = "opened"]
    /\ UNCHANGED <<written, calls, failedCalls, file_exists, arg, apiVars, clsVars, hdlVars>>

\* if not file_exists: writer.writeheader()
W_Header(p) ==
    /\ pcW[p] = "opened"
    /\ buf' = [buf EXCEPT ![p] = @ \o CsvHeader(file_exists[p])]
    /\ pcW' = [pcW EXCEPT ![p] = "headed"]
    /\ UNCHANGED <<store, written, calls, failedCalls, file_exists, arg, apiVars, clsVars, hdlVars>>

\* writer.writerow(data_dict)
W_Row(p) ==
    /\ pcW[p] = "headed"
    /\ buf' = [buf EXCEPT ![p] = Append(@, arg[p])]
    /\ pcW' = [pcW EXCEPT ![p] = "rowed"]
    /\ UNCHANGED <<store, written, calls, failedCalls, file_exists, arg, apiVars, clsVars, hdlVars>>

\* end of the with block: the buffer is appended to the file
W_Close(p) ==
    /\ pcW[p] = "rowed"
    /\ store' = CsvFlush(store, buf[p])
    /\ buf' = [buf EXCEPT ![p] = <<>>]
    /\ written' = Append(written, arg[p])
    /\ pcW' = [pcW EXCEPT ![p] = "done"]
    /\ UNCHANGED <<calls, failedCalls, file_exists, arg, apiVars, clsVars, hdlVars>>

NextCon == \E p \in Writers : W_Check(p) \/ W_Open(p) \/ W_Header(p) \/ W_Row(p) \/ W_Close(p)

SpecCon == InitCon /\ [][NextCon]_vars

\* C10 (as stated): whatever the interleaving of concurrent save_to_csv
\* calls on an absent store, the store ends with exactly one header line and
\* that line is the first.
C10_SingleHeader ==
    (\A p \in Writers : pcW[p] = "done") =>
        /\ HeaderCount(store.rows) = 1
        /\ store.rows[1] = HEADER

----------------------------------------------------------------------------
(* The POST handlers, one request per step, on an absent record.csv *)
InitHandlers ==
    /\ ApiQuiet /\ ClsQuiet /\ ConQuiet
    /\ CsvQuiet /\ HdlQuiet

\* POST /api/ai_feedback
GetAiFeedback ==
    /\ nReq < MaxReqs
    /\ \E req \in FeedbackRequests, ok \in BOOLEAN, sc \in Scenarios, fault \in Faults :
         LET out == AiFeedbackHandler(store, req, ok, sc, fault) IN
         /\ store' = out.store
         /\ prompt' = out.prompt
         /\ response' = out.response
         /\ lastReq' = [endpoint |-> "ai_feedback", req |-> req, levelFileOk |-> ok,
                        scenario |-> sc.name, image |-> "n/a", fault |-> fault]
    /\ nReq' = nReq + 1
    /\ UNCHANGED <<written, calls, failedCalls, apiVars, clsVars, conVars>>

\* POST /api/generate_image
GenerateImage ==
    /\ nReq < MaxReqs
    /\ \E req \in ImageRequests, outcome \in ImageOutcomes, fault \in Faults :
         LET out == GenerateImageHandler(store, req, outcome, fault) IN
         /\ store' = out.store
         /\ response' = out.response
         /\ lastReq' = [endpoint |-> "generate_image", req |-> req, levelFileOk |-> TRUE,
                        scenario |-> "n/a", image |-> outcome, fault |-> fault]
    /\ prompt' = NoPrompt
    /\ nReq' = nReq + 1
    /\ UNCHANGED <<written, calls, failedCalls, apiVars, clsVars, conVars>>

NextHandlers == GetAiFeedback \/ GenerateImage

SpecHandlers == InitHandlers /\ [][NextHandlers]_vars

LevelDefined(id) == \E l \in Levels : l.level = id
DataCount(rows) == Cardinality({i \in 1..Len(rows) : rows[i].kind = "data"})

MissingLevelRequest ==
    /\ lastReq.endpoint = "ai_feedback"
    /\ lastReq.req.kind = "ok" /\ lastReq.levelFileOk
    /\ ~LevelDefined(lastReq.req.level)

\* C7 (as stated): a feedback request whose level id matches no level
\* definition is answered with HTTP 500 and the generic server-error message.
C7_MissingLevelIs500 ==
    MissingLevelRequest => response = SERVER_ERROR

\* C7 (amended): a feedback request whose level id matches no level
\* definition is not an error: the answer list is taken to be empty, so every
\* selected word is classified wrong and none is missing, and the request is
\* answered with HTTP 200 and a normal feedback response.
C7_Amended ==
    MissingLevelRequest =>
        /\ response.status = 200 /\ response.field = "feedback"
        /\ prompt.sent /\ prompt.answers = <<>>
        /\ prompt.correct = <<>> /\ prompt.missing = <<>>
        /\ prompt.wrong = lastReq.req.correct_words

C7_Witness ==
    /\ MissingLevelRequest /\ lastReq.req.level = 9
    /\ lastReq.scenario = "text" /\ lastReq.fault = "none"
    /\ response.status = 200
    /\ response.value = TextReturn(<<"NL", "1. ", "a">>)
    /\ prompt.wrong = <<"Apple", "Dog">>

\* C8 (as stated): every well-formed interaction handled by either POST
\* handler appends exactly one record to the store, whatever the upstream
\* AI call did (text success or failure string, image success or failure).
C8_OneRecordPerInteraction ==
    [][(/\ nReq' = nReq + 1
        /\ lastReq'.req.kind = "ok" /\ lastReq'.levelFileOk
        /\ lastReq'.fault = "none")
       => DataCount(store'.rows) = DataCount(store.rows) + 1]_vars

ReachedSave ==
    /\ lastReq.req.kind = "ok" /\ lastReq.levelFileOk
    /\ lastReq.endpoint = "generate_image" =>
          (lastReq.req.user_sentence # "" /\ lastReq.image = "ok")

ExpectedFeedback(name) ==
    CASE name = "no_key" -> MSG_NO_KEY
      [] name = "rate_limited" -> MSG_GENERIC
      [] name = "net_down" -> MSG_CONN
      [] name = "empty" -> MSG_EMPTY
      [] name = "text" -> TextReturn(<<"NL", "1. ", "a">>)

\* C9: a failing write in save_to_csv is swallowed there: the handler still
\* answers HTTP 200 with the feedback or image data it would have returned
\* had the write succeeded, never HTTP 500.
C9_LoggingFailureSwallowed ==
    (lastReq.endpoint # "none" /\ ReachedSave /\ lastReq.fault # "none") =>
        /\ response.status = 200
        /\ lastReq.endpoint = "ai_feedback" =>
              response = Reply(200, "feedback", ExpectedFeedback(lastReq.scenario))
        /\ lastReq.endpoint = "generate_image" =>
              response = Reply(200, "image_data", [msg |-> IMAGE_B64, text |-> <<>>])

C9_Witness ==
    /\ nReq = 1 /\ lastReq.endpoint = "ai_feedback" /\ lastReq.fault = "row"
    /\ lastReq.req.kind = "ok" /\ lastReq.scenario = "net_down"
    /\ response = Reply(200, "feedback", MSG_CONN)
    /\ store.rows = <<HEADER>>

====
